---- MODULE Spec2Model ----
(***************************************************************************)
(* The SEMFE heat transfer solver: element stiffness kernel, global        *)
(* assembly, the three boundary-condition appliers of Solver.py and the    *)
(* script of main.py that chains them.                                     *)
(*                                                                         *)
(* Arrays keep Python's 0-based indices: nodes[n][0] is x, nodes[n][1] is  *)
(* y, elems[e][i] is the global node of local node i.  Matrices are        *)
(* functions K[i][j].  Boundary-condition lists are sequences of tuples.   *)
(*                                                                         *)
(* A float is modelled by the exact value it approximates, a pair <<n, d>> *)
(* in lowest terms with d > 0, extended with the IEEE specials that the    *)
(* code can produce: <<1, 0>> is +inf, <<-1, 0>> is -inf, <<0, 0>> is NaN. *)
(* Rounding is not modelled.                                               *)
(***************************************************************************)
EXTENDS Integers, Sequences, FiniteSets, TLC

VARIABLES nodes, elems, k, bcs, Ke, K, fmod, Kmod, u, pc

vars == <<nodes, elems, k, bcs, Ke, K, fmod, Kmod, u, pc>>

(***************************************************************************)
(* Bounds of the model.                                                    *)
(***************************************************************************)
\* largest coordinate of the free triangles of SpecKernel
MaxCoord == 2
\* largest number of cell columns of the rectangular meshes of Spec
MaxCols == 2
\* largest total number of boundary-condition records of one input file
MaxRecords == 2

(***************************************************************************)
(* Float arithmetic.                                                       *)
(***************************************************************************)
Abs(x) == IF x < 0 THEN -x ELSE x

Sign(x) == IF x < 0 THEN -1 ELSE IF x > 0 THEN 1 ELSE 0

RECURSIVE GCD(_, _)
GCD(a, b) == IF b = 0 THEN a ELSE GCD(b, a % b)

\* the float n/d; d = 0 gives an infinity or NaN
Float(n, d) ==
    IF d = 0 THEN <<Sign(n), 0>>
    ELSE LET g == GCD(Abs(n), Abs(d))
         IN  <<Sign(n) * Sign(d) * (Abs(n) \div g), Abs(d) \div g>>

Zero == Float(0, 1)
One == Float(1, 1)
NaN == Float(0, 0)

\* inf + inf of one sign is that inf; inf - inf and anything with NaN is NaN
FAdd(a, b) ==
    IF a[2] = 0 /\ b[2] = 0 THEN (IF a[1] = b[1] THEN a ELSE NaN)
    ELSE IF a[2] = 0 THEN a
    ELSE IF b[2] = 0 THEN b
    ELSE LET g == GCD(a[2], b[2])
         IN  Float(a[1] * (b[2] \div g) + b[1] * (a[2] \div g), (a[2] \div g) * b[2])

FNeg(a) == <<-a[1], a[2]>>

FSub(a, b) == FAdd(a, FNeg(b))

\* 0 * inf is NaN; common factors are cancelled before multiplying
FMul(a, b) ==
    IF a[2] = 0 \/ b[2] = 0 THEN <<Sign(a[1]) * Sign(b[1]), 0>>
    ELSE LET g1 == GCD(Abs(a[1]), b[2])
             g2 == GCD(Abs(b[1]), a[2])
         IN  <<(a[1] \div g1) * (b[1] \div g2), (a[2] \div g2) * (b[2] \div g1)>>

\* a / b with numpy's float64 semantics: x/0 is an infinity (or NaN for 0/0), no exception
FDiv(a, b) ==
    IF b[1] = 0 /\ b[2] # 0 THEN FMul(a, <<1, 0>>)
    ELSE FMul(a, Float(b[2] * Sign(b[1]), Abs(b[1])))

\* np.hypot on the edges of the meshes used here, whose lengths are whole numbers
Hypot(dx, dy) ==
    LET s == dx * dx + dy * dy
    IN  Float(CHOOSE r \in 0..(Abs(dx) + Abs(dy)) : r * r = s, 1)

Point(x, y) == [c \in 0..1 |-> IF c = 0 THEN x ELSE y]

Unset == <<>>

\* an array held in memory: the function f with every entry computed once
Array(f) == IF f = f THEN f ELSE f

(***************************************************************************)
(* Solver.py: element_stiffness_triangle                                   *)
(***************************************************************************)
\* np.linalg.det(J), J = [[x2-x1, x3-x1], [y2-y1, y3-y1]]
det_J(node_coords) ==
    LET x1 == node_coords[0][0]
        y1 == node_coords[0][1]
        x2 == node_coords[1][0]
        y2 == node_coords[1][1]
        x3 == node_coords[2][0]
        y3 == node_coords[2][1]
    IN  (x2 - x1) * (y3 - y1) - (x3 - x1) * (y2 - y1)

\* the area without its factor 0.5
ElementAreaNoHalf(node_coords) == Float(Abs(det_J(node_coords)), 1)

\* area = 0.5 * abs(det_J)
ElementArea(node_coords) == Float(Abs(det_J(node_coords)), 2)

\* the integer matrix [[y2-y3, y3-y1], [x3-x2, x1-x3]] @ [[1, 0, -1], [0, 1, -1]]
GradientNumerator(node_coords) ==
    LET x1 == node_coords[0][0]
        y1 == node_coords[0][1]
        x2 == node_coords[1][0]
        y2 == node_coords[1][1]
        x3 == node_coords[2][0]
        y3 == node_coords[2][1]
        M == [r \in 0..1 |-> [m \in 0..1 |->
                 IF r = 0 THEN (IF m = 0 THEN y2 - y3 ELSE y3 - y1)
                 ELSE (IF m = 0 THEN x3 - x2 ELSE x1 - x3)]]
        S == [m \in 0..1 |-> [c \in 0..2 |->
                 IF c = 2 THEN -1 ELSE IF c = m THEN 1 ELSE 0]]
    IN  [r \in 0..1 |-> [c \in 0..2 |-> M[r][0] * S[0][c] + M[r][1] * S[1][c]]]

\* the gradients without the third shape function's share of the first row
ShapeGradientOpen(node_coords) ==
    LET inv == FDiv(One, Float(det_J(node_coords), 1))
        G == GradientNumerator(node_coords)
    IN  Array([r \in 0..1 |-> [c \in 0..2 |->
            IF r = 0 /\ c = 2 THEN Zero ELSE FMul(inv, Float(G[r][c], 1))]])

\* B = (1 / det(J)) * GradientNumerator
ShapeGradient(node_coords) ==
    LET inv == FDiv(One, Float(det_J(node_coords), 1))
        G == GradientNumerator(node_coords)
    IN  Array([r \in 0..1 |-> [c \in 0..2 |-> FMul(inv, Float(G[r][c], 1))]])

\* Ke = k * area * (B.T @ B)
element_stiffness_triangle(node_coords, kk) ==
    LET B == ShapeGradient(node_coords)
        scale == FMul(kk, ElementArea(node_coords))
    IN  Array([i \in 0..2 |-> [j \in 0..2 |->
            FMul(scale, FAdd(FMul(B[0][i], B[0][j]), FMul(B[1][i], B[1][j])))]])

\* coords = nodes[conn, :2]
ElemCoords(nn, conn) == [i \in 0..2 |-> nn[conn[i]]]

(***************************************************************************)
(* Solver.py: assemble_global                                              *)
(***************************************************************************)
NumNodes(nn) == Cardinality(DOMAIN nn)

NumElems(ee) == Cardinality(DOMAIN ee)

\* the (row, col, data) triplets in the order the loops append them
Triplets(nn, ee, kk) ==
    LET Kes == Array([e \in DOMAIN ee |-> element_stiffness_triangle(ElemCoords(nn, ee[e]), kk)])
    IN  Array([t \in 1..(9 * NumElems(ee)) |->
            LET e == (t - 1) \div 9
                i == ((t - 1) % 9) \div 3
                j == (t - 1) % 3
            IN  <<ee[e][i], ee[e][j], Kes[e][i][j]>>])

\* coo_matrix(...).tocsr(): entries with the same (row, col) are summed
RECURSIVE SumDuplicates(_, _, _)
SumDuplicates(Kacc, trip, t) ==
    IF t > Len(trip) THEN Kacc
    ELSE SumDuplicates([Kacc EXCEPT ![trip[t][1]][trip[t][2]] = FAdd(@, trip[t][3])], trip, t + 1)

assemble_global(nn, ee, kk) ==
    SumDuplicates(Array([i \in DOMAIN nn |-> [j \in DOMAIN nn |-> Zero]]), Triplets(nn, ee, kk), 1)

Zeros(nn) == [i \in DOMAIN nn |-> Zero]

(***************************************************************************)
(* Python indexing of an array of length n: -n..-1 count from the end,     *)
(* anything outside -n..n-1 raises IndexError.                             *)
(***************************************************************************)
IndexInRange(i, n) == -n <= i /\ i < n

PyIndex(i, n) == IF i < 0 THEN i + n ELSE i

\* the dict {1: [0, 1], 2: [1, 2], 3: [2, 0]} of both edge appliers
edge_nodes_table == [e \in 1..3 |-> IF e = 1 THEN <<0, 1>> ELSE IF e = 2 THEN <<1, 2>> ELSE <<2, 0>>]

\* the exception a record's two lookups raise, "" when they succeed:
\* elems[int(elem_id)] comes first, then the dict lookup of int(edge_id)
RecordError(ee, rec) ==
    IF ~IndexInRange(rec[1], NumElems(ee)) THEN "IndexError"
    ELSE IF rec[2] \notin DOMAIN edge_nodes_table THEN "KeyError"
    ELSE ""

\* conn[edge_nodes]: the two global nodes of the record's edge
EdgeGlobalNodes(ee, rec) ==
    LET conn == ee[PyIndex(rec[1], NumElems(ee))]
        en == edge_nodes_table[rec[2]]
    IN  <<conn[en[1]], conn[en[2]]>>

\* L = np.hypot(x2 - x1, y2 - y1)
EdgeLength(nn, ee, rec) ==
    LET gn == EdgeGlobalNodes(ee, rec)
    IN  Hypot(nn[gn[2]][0] - nn[gn[1]][0], nn[gn[2]][1] - nn[gn[1]][1])

Half == Float(1, 2)
Sixth == Float(1, 6)
Two == Float(2, 1)

(***************************************************************************)
(* Solver.py: apply_heat_flux                                              *)
(***************************************************************************)
\* the loop body with = in place of +=
HeatFluxRecordOverwrite(fm, nn, ee, rec) ==
    LET gn == EdgeGlobalNodes(ee, rec)
        fe == FMul(FMul(rec[3], EdgeLength(nn, ee, rec)), Half)
    IN  [fm EXCEPT ![gn[1]] = fe, ![gn[2]] = fe]

\* one pass of the loop body for a record (elem_id, edge_id, q):
\* fmod[conn[edge_nodes]] += (q * L / 2) * [1, 1]
HeatFluxRecord(fm, nn, ee, rec) ==
    LET gn == EdgeGlobalNodes(ee, rec)
        fe == FMul(FMul(rec[3], EdgeLength(nn, ee, rec)), Half)
    IN  [fm EXCEPT ![gn[1]] = FAdd(fm[gn[1]], fe), ![gn[2]] = FAdd(fm[gn[2]], fe)]

RECURSIVE HeatFluxLoop(_, _, _, _, _)
HeatFluxLoop(fm, nn, ee, recs, i) ==
    IF i > Len(recs) THEN [raised |-> "", ret |-> fm]
    ELSE IF RecordError(ee, recs[i]) # "" THEN [raised |-> RecordError(ee, recs[i]), ret |-> Unset]
    ELSE HeatFluxLoop(HeatFluxRecord(fm, nn, ee, recs[i]), nn, ee, recs, i + 1)

\* the call: what it raises, what it returns, and the caller's array afterwards
\* (fmod = f.copy() is the only array written)
apply_heat_flux(f, nn, ee, heat_flux_bcs) ==
    LET r == HeatFluxLoop(f, nn, ee, heat_flux_bcs, 1)
    IN  [raised |-> r.raised, ret |-> r.ret, f |-> f]

(***************************************************************************)
(* Solver.py: apply_convection                                             *)
(***************************************************************************)
\* the loop body without the line Kmod[gn2, gn1] += K[1, 0]
ConvectionRecordOneSided(Km, fm, nn, ee, rec) ==
    LET gn == EdgeGlobalNodes(ee, rec)
        gn1 == gn[1]
        gn2 == gn[2]
        L == EdgeLength(nn, ee, rec)
        c == FMul(FMul(rec[3], L), Sixth)
        fl == FMul(FMul(FMul(rec[3], rec[4]), L), Half)
        K1 == [Km EXCEPT ![gn1][gn1] = FAdd(@, FMul(c, Two))]
        K2 == [K1 EXCEPT ![gn1][gn2] = FAdd(@, c)]
        K4 == [K2 EXCEPT ![gn2][gn2] = FAdd(@, FMul(c, Two))]
    IN  [K |-> K4,
         f |-> [fm EXCEPT ![gn1] = FAdd(fm[gn1], fl), ![gn2] = FAdd(fm[gn2], fl)]]

\* one pass of the loop body for a record (elem_id, edge_id, h, Tinf)
ConvectionRecord(Km, fm, nn, ee, rec) ==
    LET gn == EdgeGlobalNodes(ee, rec)
        gn1 == gn[1]
        gn2 == gn[2]
        L == EdgeLength(nn, ee, rec)
        c == FMul(FMul(rec[3], L), Sixth)
        Kl == [a \in 0..1 |-> [b \in 0..1 |-> FMul(c, IF a = b THEN Two ELSE One)]]
        fl == FMul(FMul(FMul(rec[3], rec[4]), L), Half)
        K1 == [Km EXCEPT ![gn1][gn1] = FAdd(@, Kl[0][0])]
        K2 == [K1 EXCEPT ![gn1][gn2] = FAdd(@, Kl[0][1])]
        K3 == [K2 EXCEPT ![gn2][gn1] = FAdd(@, Kl[1][0])]
        K4 == [K3 EXCEPT ![gn2][gn2] = FAdd(@, Kl[1][1])]
    IN  [K |-> K4,
         f |-> [fm EXCEPT ![gn1] = FAdd(fm[gn1], fl), ![gn2] = FAdd(fm[gn2], fl)]]

RECURSIVE ConvectionLoop(_, _, _, _, _, _)
ConvectionLoop(Km, fm, nn, ee, recs, i) ==
    IF i > Len(recs) THEN [raised |-> "", ret |-> [K |-> Km, f |-> fm]]
    ELSE IF RecordError(ee, recs[i]) # "" THEN [raised |-> RecordError(ee, recs[i]), ret |-> Unset]
    ELSE LET s == ConvectionRecord(Km, fm, nn, ee, recs[i])
         IN  ConvectionLoop(s.K, s.f, nn, ee, recs, i + 1)

\* Kmod = K.copy() and fmod = f.copy() are the only arrays written
apply_convection(Kin, f, nn, ee, conv_bcs) ==
    LET r == ConvectionLoop(Kin, f, nn, ee, conv_bcs, 1)
    IN  [raised |-> r.raised, ret |-> r.ret, K |-> Kin, f |-> f]

(***************************************************************************)
(* Solver.py: apply_dirichlet                                              *)
(***************************************************************************)
\* the row is zeroed, the column is not
DirichletMatrixRowOnly(Kc, node) ==
    Array([i \in DOMAIN Kc |-> [j \in DOMAIN Kc |->
        IF i = node /\ j = node THEN One
        ELSE IF i = node THEN Zero
        ELSE Kc[i][j]]])

\* K[node, :] = 0; K[:, node] = 0; K[node, node] = 1
DirichletMatrix(Kc, node) ==
    Array([i \in DOMAIN Kc |-> [j \in DOMAIN Kc |->
        IF i = node /\ j = node THEN One
        ELSE IF i = node \/ j = node THEN Zero
        ELSE Kc[i][j]]])

\* f[node] = val
DirichletLoad(fc, node, val) == [fc EXCEPT ![node] = val]

RECURSIVE DirichletLoop(_, _, _, _, _)
DirichletLoop(Kc, fc, bc_nodes, bc_values, i) ==
    IF i > Len(bc_nodes) \/ i > Len(bc_values) THEN [K |-> Kc, f |-> fc]
    ELSE DirichletLoop(DirichletMatrix(Kc, bc_nodes[i]),
                       DirichletLoad(fc, bc_nodes[i], bc_values[i]),
                       bc_nodes, bc_values, i + 1)

\* f is copied, K is written in place: the returned K is the caller's own array
apply_dirichlet(Kin, f, bc_nodes, bc_values) ==
    LET r == DirichletLoop(Kin, f, bc_nodes, bc_values, 1)
    IN  [ret |-> r, K |-> r.K, f |-> f]

(***************************************************************************)
(* Solver.py: solve_system.  spsolve is an LU solve: Gauss-Jordan          *)
(* elimination with the first non-zero pivot gives the same solution in    *)
(* exact arithmetic; an exactly singular matrix gives an all-NaN vector.   *)
(***************************************************************************)
RECURSIVE GaussJordan(_, _, _, _)
GaussJordan(A, b, c, n) ==
    IF c = n THEN b
    ELSE LET cand == {r \in c..(n - 1) : A[r][c] # Zero}
         IN  IF cand = {} THEN [i \in 0..(n - 1) |-> NaN]
             ELSE LET p == CHOOSE r \in cand : \A s \in cand : r <= s
                      A1 == [i \in 0..(n - 1) |-> IF i = c THEN A[p] ELSE IF i = p THEN A[c] ELSE A[i]]
                      b1 == [i \in 0..(n - 1) |-> IF i = c THEN b[p] ELSE IF i = p THEN b[c] ELSE b[i]]
                      rowc == Array([j \in 0..(n - 1) |-> FDiv(A1[c][j], A1[c][c])])
                      bc == FDiv(b1[c], A1[c][c])
                      A2 == Array([i \in 0..(n - 1) |->
                                IF i = c THEN rowc
                                ELSE [j \in 0..(n - 1) |-> FSub(A1[i][j], FMul(A1[i][c], rowc[j]))]])
                      b2 == Array([i \in 0..(n - 1) |->
                                IF i = c THEN bc ELSE FSub(b1[i], FMul(A1[i][c], bc))])
                  IN  GaussJordan(A2, b2, c + 1, n)

solve_system(Kin, f) == GaussJordan(Kin, f, 0, Cardinality(DOMAIN f))

(***************************************************************************)
(* Inputs: what read_input_file hands to main.py.                          *)
(***************************************************************************)
\* conductivities: 1 and the default 2.5 of assemble_global
KValues == {Float(1, 1), Float(5, 2)}

\* flux magnitudes q
QValues == {Float(1, 1), Float(2, 1)}

\* (h, Tinf) pairs
ConvValues == {<<Float(2, 1), Float(20, 1)>>}

\* prescribed temperatures
TempValues == {Float(0, 1), Float(100, 1)}

Conn(a, b, c) == [i \in 0..2 |-> IF i = 0 THEN a ELSE IF i = 1 THEN b ELSE c]

\* width and height of one cell of the rectangular meshes: every edge of a
\* triangle then has a whole length (3, 4 or 5)
CellSize == <<3, 4>>

\* a rectangle of cols x 1 cells, nodes numbered row by row from the bottom left
RectNodes(cols) ==
    [n \in 0..(2 * (cols + 1) - 1) |->
        Point(CellSize[1] * (n % (cols + 1)), CellSize[2] * (n \div (cols + 1)))]

\* two triangles per cell, split along "/" (bottom left to top right) or "\\"
RectElems(cols, diag) ==
    [e \in 0..(2 * cols - 1) |->
        LET c == e \div 2
            bl == c
            br == c + 1
            tl == cols + 1 + c
            tr == cols + 2 + c
        IN  IF diag = "/"
            THEN (IF e % 2 = 0 THEN Conn(bl, br, tr) ELSE Conn(bl, tr, tl))
            ELSE (IF e % 2 = 0 THEN Conn(bl, br, tl) ELSE Conn(br, tr, tl))]

\* T = 0 on the left edge nodes, T = 100 on the right edge nodes
LeftRight(cols) ==
    <<<<0, Float(0, 1)>>, <<cols + 1, Float(0, 1)>>,
      <<cols, Float(100, 1)>>, <<2 * cols + 1, Float(100, 1)>>>>

TempRecords(nn) == {<<n, v>> : n \in DOMAIN nn, v \in TempValues}

\* element ids just outside 0..M-1 on either side, and below -M
BadElemIds(ee) == {-1, NumElems(ee), -NumElems(ee) - 1}

BadEdgeIds == {0, 4}

FluxRecords(ee) ==
    {<<e, d, q>> : e \in DOMAIN ee, d \in 1..3, q \in QValues}
    \cup {<<e, 1, One>> : e \in BadElemIds(ee)}
    \cup {<<0, d, One>> : d \in BadEdgeIds}

ConvRecords(ee) ==
    {<<e, d, c[1], c[2]>> : e \in DOMAIN ee, d \in 1..3, c \in ConvValues}
    \cup {<<e, 1, One, Float(20, 1)>> : e \in BadElemIds(ee)}
    \cup {<<0, d, One, Float(20, 1)>> : d \in BadEdgeIds}

\* the bcs dicts with at most MaxRecords records in all; the left/right
\* prescription counts as one
BcsOf(nn, ee, cols) ==
    LET sizes == {s \in (0..MaxRecords) \X (0..MaxRecords) \X (0..MaxRecords) :
                      s[1] + s[2] + s[3] <= MaxRecords}
        temps(n) == [1..n -> TempRecords(nn)] \cup (IF n = 1 THEN {LeftRight(cols)} ELSE {})
    IN  UNION {{[temperature |-> t, heat_flux |-> q, convection |-> c] :
                   t \in temps(s[1]),
                   q \in [1..s[2] -> FluxRecords(ee)],
                   c \in [1..s[3] -> ConvRecords(ee)]} : s \in sizes}

NoBcs == [temperature |-> <<>>, heat_flux |-> <<>>, convection |-> <<>>]

\* three nodes anywhere on a small grid, degenerate triangles included
GridPoints == {Point(x, y) : x \in 0..MaxCoord, y \in 0..MaxCoord}

\* one or two elements over the three nodes, in three local numberings
KernelConns == {Conn(0, 1, 2), Conn(1, 2, 0), Conn(0, 2, 1)}

KernelElems ==
    {[e \in 0..0 |-> c] : c \in KernelConns}
    \cup {[e \in 0..1 |-> IF e = 0 THEN c ELSE d] : c \in KernelConns, d \in KernelConns}

(***************************************************************************)
(* main.py                                                                 *)
(***************************************************************************)
\* line 19: the model is read, nothing is computed yet
Init ==
    /\ \E cols \in 1..MaxCols, diag \in {"/", "\\"} :
          /\ nodes = RectNodes(cols)
          /\ elems = RectElems(cols, diag)
          /\ bcs \in BcsOf(RectNodes(cols), RectElems(cols, diag), cols)
    /\ k \in KValues
    /\ Ke = Unset
    /\ K = Unset
    /\ fmod = Unset
    /\ Kmod = Unset
    /\ u = Unset
    /\ pc = "read"

\* a free triangle instead of a generated mesh, no boundary conditions
InitKernel ==
    /\ nodes \in [0..2 -> GridPoints]
    /\ elems \in KernelElems
    /\ bcs = NoBcs
    /\ k \in KValues
    /\ Ke = Unset
    /\ K = Unset
    /\ fmod = Unset
    /\ Kmod = Unset
    /\ u = Unset
    /\ pc = "read"

\* lines 29-32: the stiffness of every element; Ke keeps the last one
ElementLoop ==
    /\ pc = "read"
    /\ Ke' = element_stiffness_triangle(ElemCoords(nodes, elems[NumElems(elems) - 1]), k)
    /\ pc' = "looped"
    /\ UNCHANGED <<nodes, elems, k, bcs, K, fmod, Kmod, u>>

\* lines 35-36
AssembleGlobal ==
    /\ pc = "looped"
    /\ K' = assemble_global(nodes, elems, k)
    /\ fmod' = Zeros(nodes)
    /\ pc' = "assembled"
    /\ UNCHANGED <<nodes, elems, k, bcs, Ke, Kmod, u>>

\* line 43; an exception ends the script
ApplyHeatFlux ==
    /\ pc = "assembled"
    /\ LET call == apply_heat_flux(fmod, nodes, elems, bcs.heat_flux)
       IN  IF call.raised # ""
           THEN fmod' = call.f /\ pc' = call.raised
           ELSE fmod' = call.ret /\ pc' = "flux"
    /\ UNCHANGED <<nodes, elems, k, bcs, Ke, K, Kmod, u>>

\* line 44
ApplyConvection ==
    /\ pc = "flux"
    /\ LET call == apply_convection(K, fmod, nodes, elems, bcs.convection)
       IN  /\ K' = call.K
           /\ IF call.raised # ""
              THEN fmod' = call.f /\ Kmod' = Kmod /\ pc' = call.raised
              ELSE fmod' = call.ret.f /\ Kmod' = call.ret.K /\ pc' = "conv"
    /\ UNCHANGED <<nodes, elems, k, bcs, Ke, u>>

\* lines 39-40 and 46: the call is given K, not Kmod
ApplyDirichlet ==
    /\ pc = "conv"
    /\ LET bc_nodes == [i \in 1..Len(bcs.temperature) |-> bcs.temperature[i][1]]
           bc_values == [i \in 1..Len(bcs.temperature) |-> bcs.temperature[i][2]]
           call == apply_dirichlet(K, fmod, bc_nodes, bc_values)
       IN  /\ K' = call.K
           /\ Kmod' = call.ret.K
           /\ fmod' = call.ret.f
    /\ pc' = "dirichlet"
    /\ UNCHANGED <<nodes, elems, k, bcs, Ke, u>>

\* line 54
SolveSystem ==
    /\ pc = "dirichlet"
    /\ u' = solve_system(Kmod, fmod)
    /\ pc' = "solved"
    /\ UNCHANGED <<nodes, elems, k, bcs, Ke, K, fmod, Kmod>>

Next ==
    \/ ElementLoop
    \/ AssembleGlobal
    \/ ApplyHeatFlux
    \/ ApplyConvection
    \/ ApplyDirichlet
    \/ SolveSystem

Spec == Init /\ [][Next]_vars

NextKernel ==
    \/ ElementLoop
    \/ AssembleGlobal

SpecKernel == InitKernel /\ [][NextKernel]_vars

(***************************************************************************)
(* Properties.                                                             *)
(***************************************************************************)
Symmetric(A) == \A i \in DOMAIN A : \A j \in DOMAIN A : A[i][j] = A[j][i]

\* the sum of the sequence of floats s
RECURSIVE FSum(_, _)
FSum(s, i) == IF i = 0 THEN Zero ELSE FAdd(FSum(s, i - 1), s[i])

RowSum(A, i) ==
    LET n == Cardinality(DOMAIN A)
    IN  FSum([j \in 1..n |-> A[i][j - 1]], n)

Degenerate(nn, conn) == det_J(ElemCoords(nn, conn)) = 0

ValidMesh == \A e \in DOMAIN elems : ~Degenerate(nodes, elems[e])

AfterAssembly == {"assembled", "flux", "conv", "dirichlet", "solved", "IndexError", "KeyError"}

AfterHeatFlux == {"flux", "conv", "dirichlet", "solved"}

AfterConvection == {"conv", "dirichlet", "solved"}

AfterDirichlet == {"dirichlet", "solved"}

\* the local coordinates of the last element, the one Ke belongs to
LastCoords == ElemCoords(nodes, elems[NumElems(elems) - 1])

\* k/(2ab) * [[a^2+b^2, -b^2, -a^2], [-b^2, b^2, 0], [-a^2, 0, a^2]]
RightTriangleStiffness(a, b, kk) ==
    LET E == [i \in 0..2 |-> [j \in 0..2 |->
                 IF i = 0 /\ j = 0 THEN a * a + b * b
                 ELSE IF i = 0 \/ j = 0 THEN (IF i + j = 1 THEN -(b * b) ELSE -(a * a))
                 ELSE IF i # j THEN 0
                 ELSE IF i = 1 THEN b * b ELSE a * a]]
    IN  [i \in 0..2 |-> [j \in 0..2 |-> FMul(kk, Float(E[i][j], 2 * a * b))]]

\* C5: for the right triangle (0,0), (a,0), (0,b) with a, b > 0 the kernel returns
\* k/(2ab) * [[a^2+b^2, -b^2, -a^2], [-b^2, b^2, 0], [-a^2, 0, a^2]]
C5_RightTriangleAnalytic ==
    pc # "read" =>
        \A a \in 1..MaxCoord, b \in 1..MaxCoord :
            (LastCoords[0] = Point(0, 0) /\ LastCoords[1] = Point(a, 0) /\ LastCoords[2] = Point(0, b))
                => Ke = RightTriangleStiffness(a, b, k)

\* legs 2 and 1, k = 1: the corner entry is (a^2 + b^2) / (2ab) = 5/4
C5_Witness ==
    /\ pc = "looped"
    /\ k = One
    /\ LastCoords[0] = Point(0, 0) /\ LastCoords[1] = Point(2, 0) /\ LastCoords[2] = Point(0, 1)
    /\ Ke[0][0] = Float(5, 4)
    /\ Ke[1][2] = Zero

\* C7: on a valid mesh every row of the assembled matrix sums to zero
C7_RowSumsZero ==
    (pc = "assembled" /\ ValidMesh) => \A i \in DOMAIN K : RowSum(K, i) = Zero

\* two elements share every node, and the row is not all zero
C7_Witness ==
    /\ pc = "assembled"
    /\ ValidMesh
    /\ NumElems(elems) = 2
    /\ k = Float(5, 2)
    /\ K[0][0] # Zero
    /\ K[0][1] # Zero

\* C9: a degenerate element is rejected, so neither the kernel loop nor the
\* assembly completes on a mesh that has one
C9_DegenerateRejected ==
    pc \in {"looped", "assembled"} => ValidMesh

(***************************************************************************)
(* Properties of the boundary-condition appliers and of main.py.           *)
(***************************************************************************)
\* a record list whose element ids are in 0..M-1 and edge ids in 1..3
WellFormed(recs) ==
    \A i \in DOMAIN recs : recs[i][1] \in 0..(NumElems(elems) - 1) /\ recs[i][2] \in 1..3

\* edge 1 -> (n0, n1), 2 -> (n1, n2), 3 -> (n2, n0)
StatedEdge(rec) ==
    LET conn == elems[rec[1]]
    IN  IF rec[2] = 1 THEN {conn[0], conn[1]}
        ELSE IF rec[2] = 2 THEN {conn[1], conn[2]}
        ELSE {conn[2], conn[0]}

StatedLength(rec) ==
    LET a == CHOOSE n \in StatedEdge(rec) : TRUE
        b == CHOOSE n \in StatedEdge(rec) : n # a
    IN  Hypot(nodes[b][0] - nodes[a][0], nodes[b][1] - nodes[a][1])

\* f0 plus q*L/2 at both nodes of every record's edge
StatedFluxLoad(f0, recs) ==
    [n \in DOMAIN nodes |->
        FAdd(f0[n], FSum([i \in 1..Len(recs) |->
            IF n \in StatedEdge(recs[i])
            THEN FMul(FMul(recs[i][3], StatedLength(recs[i])), Half)
            ELSE Zero], Len(recs)))]

\* f0 plus h*Tinf*L/2 at both nodes of every record's edge
StatedConvLoad(f0, recs) ==
    [n \in DOMAIN nodes |->
        FAdd(f0[n], FSum([i \in 1..Len(recs) |->
            IF n \in StatedEdge(recs[i])
            THEN FMul(FMul(FMul(recs[i][3], recs[i][4]), StatedLength(recs[i])), Half)
            ELSE Zero], Len(recs)))]

\* K0 plus h*L/6 * [[2, 1], [1, 2]] on the two nodes of every record's edge
StatedConvMatrix(K0, recs) ==
    [a \in DOMAIN nodes |-> [b \in DOMAIN nodes |->
        FAdd(K0[a][b], FSum([i \in 1..Len(recs) |->
            IF a \in StatedEdge(recs[i]) /\ b \in StatedEdge(recs[i])
            THEN FMul(FMul(FMul(recs[i][3], StatedLength(recs[i])), Sixth),
                      IF a = b THEN Two ELSE One)
            ELSE Zero], Len(recs)))]]

Orderings(n) == {p \in [1..n -> 1..n] : \A i \in 1..n : \A j \in 1..n : p[i] = p[j] => i = j}

Permuted(recs, p) == [i \in 1..Len(recs) |-> recs[p[i]]]

\* C6: flux and convection contributions add up over the record list: the
\* result is the input plus the sum of the records' single contributions, so a
\* record listed twice counts twice and every permutation of the list gives
\* the same result
C6_ContributionsAdditive ==
    /\ (pc = "flux" /\ WellFormed(bcs.heat_flux)) =>
          /\ fmod = StatedFluxLoad(Zeros(nodes), bcs.heat_flux)
          /\ \A p \in Orderings(Len(bcs.heat_flux)) :
                apply_heat_flux(Zeros(nodes), nodes, elems, Permuted(bcs.heat_flux, p)).ret = fmod
    /\ (pc = "conv" /\ WellFormed(bcs.heat_flux) /\ WellFormed(bcs.convection)) =>
          LET f1 == StatedFluxLoad(Zeros(nodes), bcs.heat_flux)
          IN  /\ fmod = StatedConvLoad(f1, bcs.convection)
              /\ Kmod = StatedConvMatrix(K, bcs.convection)
              /\ \A p \in Orderings(Len(bcs.convection)) :
                    apply_convection(K, f1, nodes, elems, Permuted(bcs.convection, p)).ret
                        = [K |-> Kmod, f |-> fmod]

\* the same flux record twice: each node of its edge holds q*L, twice q*L/2
C6_Witness ==
    /\ pc = "flux"
    /\ Len(bcs.heat_flux) = 2
    /\ WellFormed(bcs.heat_flux)
    /\ bcs.heat_flux[1] = bcs.heat_flux[2]
    /\ \A n \in StatedEdge(bcs.heat_flux[1]) :
          fmod[n] = FMul(bcs.heat_flux[1][3], StatedLength(bcs.heat_flux[1]))

TempNodes == {bcs.temperature[i][1] : i \in DOMAIN bcs.temperature}

\* the value of the last record that names node p
LastValue(p) ==
    LET t == bcs.temperature
        last == CHOOSE i \in DOMAIN t : t[i][1] = p /\ \A j \in DOMAIN t : t[j][1] = p => j <= i
    IN  t[last][2]

\* C2: after apply_dirichlet every named node p has a zero row and column but
\* for K[p,p] = 1, f[p] is the value of the last record naming p, and the
\* solved u[p] is that value
C2_DirichletRowsAndValues ==
    /\ pc \in AfterDirichlet =>
          \A p \in TempNodes :
              /\ Kmod[p][p] = One
              /\ \A j \in DOMAIN Kmod : j # p => (Kmod[p][j] = Zero /\ Kmod[j][p] = Zero)
              /\ fmod[p] = LastValue(p)
    /\ pc = "solved" => \A p \in TempNodes : u[p] = LastValue(p)

\* one node named twice with different values, in a matrix that coupled it
C2_Witness ==
    /\ pc = "solved"
    /\ Len(bcs.temperature) = 2
    /\ bcs.temperature[1][1] = bcs.temperature[2][1]
    /\ bcs.temperature[1][2] # bcs.temperature[2][2]
    /\ u[bcs.temperature[2][1]] = bcs.temperature[2][2]
    /\ \E j \in DOMAIN K : j # bcs.temperature[1][1]
          /\ assemble_global(nodes, elems, k)[bcs.temperature[1][1]][j] # Zero

\* C4: K is symmetric as assemble_global returns it, as apply_convection
\* returns it and as apply_dirichlet returns it
C4_SymmetricAtEveryStage ==
    /\ pc \in AfterAssembly => Symmetric(K)
    /\ pc \in AfterConvection => Symmetric(Kmod)

\* convection on an edge, then a Dirichlet node, off-diagonal entries left
C4_Witness ==
    /\ pc = "dirichlet"
    /\ Len(bcs.convection) = 1
    /\ Len(bcs.temperature) = 1
    /\ \E i \in DOMAIN Kmod : \E j \in DOMAIN Kmod : i # j /\ Kmod[i][j] # Zero

\* C1: the matrix given to solve_system is Dirichlet(Robin(assembled K))
C1_ConvectionInSolvedMatrix ==
    pc \in AfterDirichlet =>
        LET bc_nodes == [i \in 1..Len(bcs.temperature) |-> bcs.temperature[i][1]]
            bc_values == [i \in 1..Len(bcs.temperature) |-> bcs.temperature[i][2]]
            robin == apply_convection(assemble_global(nodes, elems, k), Zeros(nodes),
                                      nodes, elems, bcs.convection).ret.K
        IN  Kmod = apply_dirichlet(robin, fmod, bc_nodes, bc_values).ret.K

XLeft == CHOOSE x \in {nodes[n][0] : n \in DOMAIN nodes} : \A m \in DOMAIN nodes : x <= nodes[m][0]

XRight == CHOOSE x \in {nodes[n][0] : n \in DOMAIN nodes} : \A m \in DOMAIN nodes : x >= nodes[m][0]

\* C3: with T = 0 on the left edge, T = 100 on the right edge and nothing else,
\* the solved field is 100 * (x - x_left) / (x_right - x_left) at every node
C3_LinearProfile ==
    (/\ pc = "solved"
     /\ bcs.temperature = LeftRight((NumNodes(nodes) \div 2) - 1)
     /\ bcs.heat_flux = <<>>
     /\ bcs.convection = <<>>)
        => \A n \in DOMAIN nodes : u[n] = Float(100 * (nodes[n][0] - XLeft), XRight - XLeft)

\* C8: a record with an edge id outside 1..3 or an element id outside 0..M-1
\* ends the call in an error, with the caller's K and f as they were
C8_InvalidRecordsRejected ==
    /\ pc \in AfterHeatFlux => WellFormed(bcs.heat_flux)
    /\ pc \in AfterConvection => WellFormed(bcs.convection)
    /\ pc \in {"IndexError", "KeyError"} =>
          LET flux == apply_heat_flux(Zeros(nodes), nodes, elems, bcs.heat_flux)
          IN  /\ K = assemble_global(nodes, elems, k)
              /\ Kmod = Unset
              /\ fmod = (IF flux.raised # "" THEN Zeros(nodes) ELSE flux.ret)

\* C10: the K that main.py got from assemble_global is still that matrix after
\* the appliers have run
C10_CallerArraysUnchanged ==
    pc \in AfterAssembly => K = assemble_global(nodes, elems, k)

====
